---- MODULE Spec2Model ----
(***************************************************************************)
(* A model of the university schedule chatbot (appv3streamlit.py):         *)
(* the schedule table, the entity vocabularies built from it, the entity   *)
(* extraction pipeline, the conversation context and the per-intent        *)
(* response dispatch, driven by the turns of one chat session.             *)
(*                                                                         *)
(* Representation of Python values                                         *)
(*   str        a sequence of words (the words of the string, separated    *)
(*              by single blanks); '' is << >>.  strip() is therefore the  *)
(*              identity on every string of the model, lower() is LowerWord *)
(*              applied to each word, `a in b` is contiguous containment.  *)
(*   None       the reserved value None.                                   *)
(*   dict       a function whose DOMAIN is the set of keys present.        *)
(*   time/date  <<h, m>> / <<d, m, y>>; an absent one (None, NaT) is << >>. *)
(* The module is plain ASCII: the Turkish titles are written Doc., Ogr.,   *)
(* Gor. and the emoji that open some responses are left out.               *)
(***************************************************************************)
EXTENDS Integers, Sequences, FiniteSets, TLC

VARIABLES
    df,                            \* self.df: the loaded schedule rows
    normalized_courses,            \* self.normalized_courses
    normalized_teachers,           \* self.normalized_teachers
    normalized_teachers_no_titles, \* self.normalized_teachers_no_titles
    context,                       \* self.context
    messages,                      \* st.session_state.messages
    callerEntities,                \* the dict object the last caller passed
    clock,                         \* what datetime.now() returns next
    call,                          \* history variable: the latest call
    recorded                       \* history variable: every Interaction recorded

vars == <<df, normalized_courses, normalized_teachers,
          normalized_teachers_no_titles, context, messages, callerEntities,
          clock, call, recorded>>

----------------------------------------------------------------------------
(* Python values *)

None == <<"<None>">>

\* bool(v) of a str or None
Truthy(v) == v # None /\ v # << >>

\* A column value that is not a str (a number read from a numeric cell)
IsStr(v) == v = << >> \/ Head(v) # "<int>"

\* d.get(k, default)
DictGet(d, k, default) == IF k \in DOMAIN d THEN d[k] ELSE default

\* d[k] = v
DictSet(d, k, v) == [x \in DOMAIN d \cup {k} |-> IF x = k THEN v ELSE d[x]]

\* str.lower() of one word
LowerWord(w) ==
    CASE w = "CS101" -> "cs101"
      [] w = "MATH1" -> "math1"
      [] w = "Dr."   -> "dr."
      [] w = "Prof." -> "prof."
      [] w = "Doc."  -> "doc."
      [] w = "Ogr."  -> "ogr."
      [] w = "Gor."  -> "gor."
      [] w = "Ada"   -> "ada"
      [] w = "Bob"   -> "bob"
      [] w = "Cuma"  -> "cuma"
      [] w = "Friday" -> "friday"
      [] w = "When"  -> "when"
      [] w = "Midterm" -> "midterm"
      [] w = "Final" -> "final"
      [] w = "Makeup" -> "makeup"
      [] OTHER -> w

Lower(s) == [i \in 1..Len(s) |-> LowerWord(s[i])]

\* s.startswith(p)
StartsWith(s, p) == Len(p) <= Len(s) /\ SubSeq(s, 1, Len(p)) = p

\* p in s
Contains(s, p) ==
    \E i \in 0..(Len(s) - Len(p)) : SubSeq(s, i + 1, i + Len(p)) = p

\* The text of a value inside an f-string or a join
RECURSIVE JoinWith(_, _)
JoinWith(ws, sep) ==
    IF ws = << >> THEN ""
    ELSE IF Len(ws) = 1 THEN Head(ws)
    ELSE Head(ws) \o sep \o JoinWith(Tail(ws), sep)

Str(v) == IF IsStr(v) THEN JoinWith(v, " ") ELSE JoinWith(Tail(v), " ")

\* The elements of a sequence in order of first appearance (pandas unique())
RECURSIVE Unique(_)
Unique(s) ==
    IF s = << >> THEN << >>
    ELSE LET init == Unique(SubSeq(s, 1, Len(s) - 1))
             x == s[Len(s)]
         IN IF \E i \in 1..Len(init) : init[i] = x THEN init ELSE Append(init, x)

Column(rows, col) == [i \in 1..Len(rows) |-> rows[i][col]]

\* d[k] = v on an insertion-ordered dict, kept as a sequence of <<key, value>>
OrderedPut(d, k, v) ==
    IF \E i \in 1..Len(d) : d[i][1] = k
    THEN [i \in 1..Len(d) |-> IF d[i][1] = k THEN <<k, v>> ELSE d[i]]
    ELSE Append(d, <<k, v>>)

Keys(d) == {d[i][1] : i \in 1..Len(d)}
Values(d) == {d[i][2] : i \in 1..Len(d)}

----------------------------------------------------------------------------
(* Entity vocabularies, built once from the schedule *)

\* _normalize_text
NormalizeText(text) == Lower(text)

RECURSIVE NormalizedMap(_)
NormalizedMap(names) ==
    IF names = << >> THEN << >>
    ELSE LET n == names[Len(names)]
         IN OrderedPut(NormalizedMap(SubSeq(names, 1, Len(names) - 1)),
                       NormalizeText(n), n)

IsCourseName(c) == IsStr(c)
IsTeacherName(t) == IsStr(t) /\ t # <<"-">>

\* _preprocess_courses
PreprocessCourses(rows) ==
    NormalizedMap(SelectSeq(Unique(Column(rows, "Course")), IsCourseName))

\* _preprocess_teachers
PreprocessTeachers(rows) ==
    NormalizedMap(SelectSeq(Unique(Column(rows, "Teacher")), IsTeacherName))

title_prefixes ==
    << <<"Doc.", "Dr.">>, <<"Ogr.", "Gor.", "Dr.">>, <<"Ogr.", "Gor.">>,
       <<"Prof.", "Dr.">>, <<"Dr.">> >>

\* One pass of the prefix loop body: no_title[len(prefix):].strip()
StripPrefix(no_title, prefix) ==
    IF StartsWith(no_title, prefix)
    THEN SubSeq(no_title, Len(prefix) + 1, Len(no_title))
    ELSE no_title

\* The prefix loop: every prefix of the list is tried, in order, on what the
\* earlier ones left (the loop has no break)
RECURSIVE StripTitles(_, _)
StripTitles(no_title, prefixes) ==
    IF prefixes = << >> THEN no_title
    ELSE StripTitles(StripPrefix(no_title, Head(prefixes)), Tail(prefixes))

RECURSIVE NoTitleMap(_)
NoTitleMap(names) ==
    IF names = << >> THEN << >>
    ELSE LET t == names[Len(names)]
         IN OrderedPut(NoTitleMap(SubSeq(names, 1, Len(names) - 1)),
                       NormalizeText(StripTitles(t, title_prefixes)), t)

\* _preprocess_teachers_no_titles
PreprocessTeachersNoTitles(rows) ==
    NoTitleMap(SelectSeq(Unique(Column(rows, "Teacher")), IsTeacherName))

----------------------------------------------------------------------------
(* Language capability: what the tokenizer, the entity ruler, the phrase    *)
(* matcher and the statistical models yield for a text.  A token is a word. *)
(* Substring tests on the lowered text are decided per word: no marker      *)
(* holds a blank, so a marker is in the text iff it is in one of its words. *)

\* Lowered words of the model that hold one of 'ders', 'hoca', 'vize', 'final'
TrMarkerWords == {"ders", "hoca", "vize", "final"}

\* detect_language
DetectLanguage(text) ==
    IF \E i \in 1..Len(text) : LowerWord(text[i]) \in TrMarkerWords
    THEN "tr" ELSE "en"

\* Lowered words of the model that hold 'he', 'she', 'her', 'him' or 'it'
EnPronounWords == {"when", "the", "teacher", "her", "it"}
\* Lowered words of the model that hold 'o', 'onun' or 'ona'
TrPronounWords == {"bob", "about", "doc.", "ogr.", "gor.", "prof.", "o", "hoca"}
\* Lowered words of the model that hold 'about' or 'hakkinda'
AboutWords == {"about", "hakkinda"}

\* is_followup
IsFollowup(normalized, lang) ==
    \E i \in 1..Len(normalized) :
        \/ lang = "en" /\ normalized[i] \in EnPronounWords
        \/ lang = "tr" /\ normalized[i] \in TrPronounWords
        \/ normalized[i] \in AboutWords

\* LANGUAGES[lang]['keywords']: the label of a token the phrase matcher hits
KeywordLabel(lang, w) ==
    IF lang = "en"
    THEN CASE w \in {"course", "class", "lecture"} -> "course"
           [] w \in {"exam", "test", "midterm", "final"} -> "exam"
           [] w \in {"teacher", "professor", "instructor"} -> "teacher"
           [] OTHER -> "none"
    ELSE CASE w \in {"ders", "kurs"} -> "course"
           [] w \in {"sinav", "vize", "final", "butunleme"} -> "exam"
           [] w \in {"hoca", "ogretmen", "profesor"} -> "teacher"
           [] OTHER -> "none"

\* UNIVERSITY_TERMS['buildings'], the single-token ones
Buildings == {"201", "202", "203", "204", "206", "UZEM"}

\* exam_keywords
ExamKeywords(lang) ==
    IF lang = "en" THEN {"midterm", "final", "makeup"}
    ELSE {"vize", "final", "butunleme"}

\* token.lemma_ of the words of the model (all are base forms)
Lemma(w) == w

\* turkish_days: lowered token -> canonical day, << >> when it is no day
TurkishDay(lower) ==
    CASE lower = "pazartesi" -> <<"Pazartesi">>
      [] lower = "sali" -> <<"Sali">>
      [] lower = "carsamba" -> <<"Carsamba">>
      [] lower = "persembe" -> <<"Persembe">>
      [] lower = "cuma" -> <<"Cuma">>
      [] lower = "cumartesi" -> <<"Cumartesi">>
      [] lower = "pazar" -> <<"Pazar">>
      [] OTHER -> << >>

\* Words the statistical NER labels, when it recognises them at all
DateWords == {"Friday", "Monday"}
TimeWords == {"noon"}
PersonWords == {"Ada", "Bob"}

\* The entity ruler's patterns (_setup_nlp): the canonical names, with label
RulerPatterns(courses, teachers) ==
    {[label |-> "COURSE", pattern |-> c] : c \in Values(courses)}
        \cup {[label |-> "TEACHER", pattern |-> t] : t \in Values(teachers)}

\* doc.ents from position i on: the ruler runs before the statistical NER,
\* so a pattern wins over a statistical label, and the longest pattern wins.
RECURSIVE Ents(_, _, _, _)
Ents(text, i, patterns, stat) ==
    IF i > Len(text) THEN << >>
    ELSE LET here == {p \in patterns :
                        /\ p.pattern # << >>
                        /\ i + Len(p.pattern) - 1 <= Len(text)
                        /\ SubSeq(text, i, i + Len(p.pattern) - 1) = p.pattern}
         IN IF here # {}
            THEN LET p == CHOOSE q \in here :
                            \A r \in here :
                                \/ Len(r.pattern) < Len(q.pattern)
                                \/ Len(r.pattern) = Len(q.pattern)
                                     /\ (q.label = "COURSE" \/ r.label = "TEACHER")
                 IN <<[label |-> p.label, text |-> p.pattern]>>
                        \o Ents(text, i + Len(p.pattern), patterns, stat)
            ELSE LET w == text[i]
                     label == CASE stat /\ w \in DateWords -> "DATE"
                                [] stat /\ w \in TimeWords -> "TIME"
                                [] stat /\ w \in PersonWords -> "PERSON"
                                [] OTHER -> "none"
                 IN (IF label = "none" THEN << >>
                     ELSE <<[label |-> label, text |-> <<w>>]>>)
                        \o Ents(text, i + 1, patterns, stat)

Threshold == 70

\* fuzzy_match_entity.  process.extractOne is an oracle: best = <<pick, score>>
\* names the candidate it ranks first and its score.  With no candidate it
\* returns None and the tuple unpacking raises TypeError: the result Raise.
Raise == <<"<raise>">>

FuzzyMatchEntity(text, candidates, best) ==
    IF ~Truthy(text) THEN None
    ELSE IF candidates = << >> THEN Raise
    ELSE IF best[2] >= Threshold
         THEN candidates[((best[1] - 1) % Len(candidates)) + 1][2]
         ELSE None

----------------------------------------------------------------------------
(* extract_entities *)

EntityKeys == {"course", "teacher", "exam_type", "day", "time", "building"}

\* The dict extract_entities starts from: every key present, every value None
EmptyEntities == [k \in EntityKeys |-> None]

\* The exact-match loops: the first vocabulary entry, in insertion order,
\* whose normalized name is in the normalized text
RECURSIVE FirstMatch(_, _)
FirstMatch(vocab, normalized) ==
    IF vocab = << >> THEN None
    ELSE IF Contains(normalized, Head(vocab)[1]) THEN Head(vocab)[2]
    ELSE FirstMatch(Tail(vocab), normalized)

ExactStage(e, courses, teachers, normalized) ==
    LET c == FirstMatch(courses, normalized)
        t == FirstMatch(teachers, normalized)
    IN [e EXCEPT !["course"] = IF c # None THEN c ELSE @,
                 !["teacher"] = IF t # None THEN t ELSE @]

\* The fuzzy fallback; a field holds Raise where fuzzy_match_entity raised
FuzzyStage(e, courses, teachers, noTitles, normalized, o) ==
    LET c == IF ~Truthy(e["course"])
             THEN FuzzyMatchEntity(normalized, courses, o.fzCourse)
             ELSE e["course"]
        t1 == IF ~Truthy(e["teacher"])
              THEN FuzzyMatchEntity(normalized, teachers, o.fzTeacher)
              ELSE e["teacher"]
        t == IF ~Truthy(e["teacher"]) /\ ~Truthy(t1)
             THEN FuzzyMatchEntity(normalized, noTitles, o.fzNoTitle)
             ELSE t1
    IN IF c = Raise THEN [e EXCEPT !["course"] = Raise]
       ELSE [e EXCEPT !["course"] = c, !["teacher"] = t]

\* The body of the loop over doc.ents, for one span
NerStep(e, ent, noTitles, o) ==
    CASE ent.label = "COURSE" ->
            LET teacher_match == FuzzyMatchEntity(ent.text, noTitles, o.fzSpan)
            IN IF teacher_match = Raise THEN [e EXCEPT !["teacher"] = Raise]
               ELSE IF Truthy(teacher_match)
               THEN [e EXCEPT !["teacher"] = teacher_match, !["course"] = None]
               ELSE [e EXCEPT !["course"] = ent.text]
      [] ent.label = "TEACHER" -> [e EXCEPT !["teacher"] = ent.text]
      [] ent.label = "DATE" -> [e EXCEPT !["day"] = ent.text]
      [] ent.label = "TIME" -> [e EXCEPT !["time"] = ent.text]
      [] ent.label = "PERSON" /\ ~Truthy(e["teacher"]) ->
            [e EXCEPT !["teacher"] = FuzzyMatchEntity(ent.text, noTitles, o.fzSpan)]
      [] OTHER -> e

Raised(e) == e["course"] = Raise \/ e["teacher"] = Raise

RECURSIVE NerStage(_, _, _, _)
NerStage(e, ents, noTitles, o) ==
    IF ents = << >> \/ Raised(e) THEN e
    ELSE NerStage(NerStep(e, Head(ents), noTitles, o), Tail(ents), noTitles, o)

\* The loop over reversed(history), from interaction i down: whichever field
\* it fills, the break leaves the loop
RECURSIVE BackfillFrom(_, _, _)
BackfillFrom(e, history, i) ==
    IF i = 0 THEN e
    ELSE LET seen == history[i].entities.items
         IN IF ~Truthy(e["teacher"]) /\ Truthy(DictGet(seen, "teacher", None))
            THEN [e EXCEPT !["teacher"] = seen["teacher"]]
            ELSE IF ~Truthy(e["course"]) /\ Truthy(DictGet(seen, "course", None))
            THEN [e EXCEPT !["course"] = seen["course"]]
            ELSE BackfillFrom(e, history, i - 1)

\* Whether follow-up resolution runs
FollowupRuns(e, is_followup) ==
    is_followup \/ ~(Truthy(e["course"]) \/ Truthy(e["teacher"]))

FollowupStage(e, history, is_followup) ==
    IF FollowupRuns(e, is_followup)
    THEN BackfillFrom(e, history, Len(history))
    ELSE e

\* The Turkish weekday pass: the last weekday token wins
RECURSIVE DayStage(_, _)
DayStage(e, tokens) ==
    IF tokens = << >> THEN e
    ELSE LET d == TurkishDay(LowerWord(Head(tokens)))
         IN DayStage(IF d # << >> THEN [e EXCEPT !["day"] = d] ELSE e,
                     Tail(tokens))

\* keyword_to_entity
KeywordToEntity(label) ==
    CASE label = "course" -> "course"
      [] label = "exam" -> "exam_type"
      [] label = "teacher" -> "teacher"

\* The loop over the phrase matcher's matches, in text order
RECURSIVE KeywordStage(_, _, _)
KeywordStage(e, tokens, lang) ==
    IF tokens = << >> THEN e
    ELSE LET label == KeywordLabel(lang, Head(tokens))
             next ==
                 IF label = "none" THEN e
                 ELSE LET key == KeywordToEntity(label)
                      IN IF key = "course" /\ Truthy(e["teacher"]) THEN e
                         ELSE [e EXCEPT ![key] = <<Head(tokens)>>]
         IN KeywordStage(next, Tail(tokens), lang)

RECURSIVE BuildingStage(_, _)
BuildingStage(e, tokens) ==
    IF tokens = << >> THEN e
    ELSE BuildingStage(IF Head(tokens) \in Buildings
                       THEN [e EXCEPT !["building"] = <<Head(tokens)>>] ELSE e,
                       Tail(tokens))

RECURSIVE ExamStage(_, _, _)
ExamStage(e, tokens, lang) ==
    IF tokens = << >> THEN e
    ELSE LET lemma == LowerWord(Lemma(Head(tokens)))
         IN ExamStage(IF lemma \in ExamKeywords(lang)
                      THEN [e EXCEPT !["exam_type"] = <<lemma>>] ELSE e,
                      Tail(tokens), lang)

\* The entities after the exact, fuzzy and NER stages
AfterNer(courses, teachers, noTitles, text, o) ==
    LET normalized == NormalizeText(text)
        e1 == ExactStage(EmptyEntities, courses, teachers, normalized)
        e2 == FuzzyStage(e1, courses, teachers, noTitles, normalized, o)
    IN NerStage(e2, Ents(text, 1, RulerPatterns(courses, teachers), o.stat),
                noTitles, o)

\* extract_entities: [raised, entities]; o is what the NLP backend and the
\* fuzzy scorer answer for this text
ExtractEntities(ctx, courses, teachers, noTitles, text, o) ==
    LET normalized == NormalizeText(text)
        lang == DetectLanguage(text)
        e3 == AfterNer(courses, teachers, noTitles, text, o)
        e4 == FollowupStage(e3, ctx.history, IsFollowup(normalized, lang))
        e5 == DayStage(e4, text)
        e6 == KeywordStage(e5, text, lang)
        e7 == BuildingStage(e6, text)
        e8 == ExamStage(e7, text, lang)
    IN IF o.raises THEN [raised |-> TRUE, cause |-> "nlp", entities |-> EmptyEntities]
       ELSE IF Raised(e3)
       THEN [raised |-> TRUE, cause |-> "TypeError", entities |-> EmptyEntities]
       ELSE [raised |-> FALSE, cause |-> "", entities |-> e8]

----------------------------------------------------------------------------
(* Conversation context *)

MaxHistory == 5

\* self.context after __init__
InitialContext ==
    [history |-> << >>, last_course |-> None, last_teacher |-> None,
     last_day |-> None]

\* entities.copy(): a new dict object with the same items.  id tells a dict
\* made by the copy ("new") from the very object the caller passed ("arg").
EntitiesCopy(entities) == [id |-> "new", items |-> entities]

\* The trim keeping the oldest five: history[:5]
KeepFirstN(s, n) == IF Len(s) > n THEN SubSeq(s, 1, n) ELSE s

\* self.context['history'][-5:]
LastN(s, n) == IF Len(s) > n THEN SubSeq(s, Len(s) - n + 1, Len(s)) ELSE s

\* The Interaction _update_context builds
Interaction(query, intent, entities, now) ==
    [query |-> query, intent |-> intent, entities |-> EntitiesCopy(entities),
     timestamp |-> now]

\* _update_context
UpdateContext(ctx, query, intent, entities, now) ==
    [history |-> LastN(Append(ctx.history,
                              Interaction(query, intent, entities, now)),
                       MaxHistory),
     last_course |-> DictGet(entities, "course", ctx.last_course),
     last_teacher |-> DictGet(entities, "teacher", ctx.last_teacher),
     last_day |-> DictGet(entities, "day", ctx.last_day)]

----------------------------------------------------------------------------
(* generate_response: the per-intent branches *)

\* a or b
Or(a, b) == IF Truthy(a) THEN a ELSE b

\* pd.notna of a time or date cell
NotNa(t) == t # << >>

Pad2(n) == IF n < 10 THEN "0" \o ToString(n) ELSE ToString(n)

\* _format_time
FormatTime(time_obj) ==
    IF Len(time_obj) = 2 THEN Pad2(time_obj[1]) \o ":" \o Pad2(time_obj[2])
    ELSE "time not set"

\* strftime("%d.%m.%Y")
FormatDate(d) == Pad2(d[1]) \o "." \o Pad2(d[2]) \o "." \o ToString(d[3])

Lecture == <<"Lecture">>
ExamTypes == {<<"Midterm">>, <<"Final">>, <<"Makeup">>}

\* A response: the return statement taken (kind), the operative entity it was
\* resolved for (entity), the first line (head) and the record lines that
\* follow it.  The returned text is head and lines joined by newlines.
Reply(kind, entity, head, lines) ==
    [raised |-> FALSE, kind |-> kind, entity |-> entity, head |-> head,
     lines |-> lines]

\* An exception leaving generate_response or extract_entities
Exception(cause) ==
    [raised |-> TRUE, kind |-> "exception", entity |-> None, head |-> cause,
     lines |-> << >>]

\* ', '.join(values): TypeError when a value is not a str
JoinComma(values) ==
    JoinWith([i \in 1..Len(values) |-> Str(values[i])], ", ")

AllStr(values) == \A i \in 1..Len(values) : IsStr(values[i])

LectureRows(rows) == SelectSeq(rows, LAMBDA r : r["Exam Type"] = Lecture)

\* df[(df["Course"] == course) & (df["Exam Type"] == "Lecture")], then by day
CourseLectures(rows, course, day) ==
    LET of == SelectSeq(LectureRows(rows), LAMBDA r : r["Course"] = course)
    IN IF Truthy(day) THEN SelectSeq(of, LAMBDA r : r["Day"] = day) ELSE of

ClassScheduleLine(r) ==
    "- " \o Str(r["Day"]) \o " at " \o FormatTime(r["Time"]) \o " in room "
        \o Str(r["Room"])

ClassSchedule(rows, entities, ctx) ==
    LET course == Or(DictGet(entities, "course", None), ctx.last_course)
        day == Or(DictGet(entities, "day", None), ctx.last_day)
        found == CourseLectures(rows, course, day)
        shown == SelectSeq(found, LAMBDA r : NotNa(r["Time"]) /\ Truthy(r["Day"]))
    IN IF Truthy(course)
       THEN IF found # << >>
            THEN Reply("listing", course, "Schedule for " \o Str(course) \o ":",
                       [i \in 1..Len(shown) |-> ClassScheduleLine(shown[i])])
            ELSE Reply("not_found", course,
                       "No schedule found for " \o Str(course) \o ".", << >>)
       ELSE Reply("clarify", None,
                  "Which course's schedule would you like to know?", << >>)

ExamLine(r) ==
    "- " \o Str(r["Exam Type"]) \o " on " \o FormatDate(r["Exam Date"]) \o " at "
        \o FormatTime(r["Exam Time"])

ExamInfo(rows, entities, ctx) ==
    LET course == Or(DictGet(entities, "course", None), ctx.last_course)
        exam_type == DictGet(entities, "exam_type", None)
        exams == SelectSeq(rows, LAMBDA r : r["Course"] = course
                                             /\ r["Exam Type"] \in ExamTypes)
        found == IF Truthy(exam_type)
                 THEN SelectSeq(exams, LAMBDA r :
                                  Lower(r["Exam Type"]) = Lower(exam_type))
                 ELSE exams
        shown == SelectSeq(found, LAMBDA r : NotNa(r["Exam Date"]))
    IN IF Truthy(course)
       THEN IF found # << >>
            THEN Reply("listing", course, "Exam info for " \o Str(course) \o ":",
                       [i \in 1..Len(shown) |-> ExamLine(shown[i])])
            ELSE Reply("not_found", course,
                       "No exam info found for " \o Str(course) \o ".", << >>)
       ELSE Reply("clarify", None, "Which course's exam info would you like?", << >>)

TeacherLectures(rows, teacher) ==
    SelectSeq(LectureRows(rows), LAMBDA r : r["Teacher"] = teacher)

TeacherInfo(rows, entities, ctx) ==
    LET teacher == Or(DictGet(entities, "teacher", None), ctx.last_teacher)
        found == TeacherLectures(rows, teacher)
        courses == Unique(Column(found, "Course"))
    IN IF Truthy(teacher)
       THEN IF found # << >>
            THEN IF AllStr(courses)
                 THEN Reply("answer", teacher,
                            Str(teacher) \o " teaches: " \o JoinComma(courses), << >>)
                 ELSE Exception("TypeError")
            ELSE Reply("not_found", teacher,
                       "No courses found for " \o Str(teacher) \o ".", << >>)
       ELSE Reply("clarify", None, "Which teacher would you like info about?", << >>)

RoomInfo(rows, entities, ctx) ==
    LET course == Or(DictGet(entities, "course", None), ctx.last_course)
        day == Or(DictGet(entities, "day", None), ctx.last_day)
        found == CourseLectures(rows, course, day)
        shown == SelectSeq(found, LAMBDA r : Truthy(r["Room"]) /\ NotNa(r["Time"]))
    IN IF Truthy(course)
       THEN IF found # << >>
            THEN Reply("listing", course, "Rooms for " \o Str(course) \o ":",
                       [i \in 1..Len(shown) |-> ClassScheduleLine(shown[i])])
            ELSE Reply("not_found", course,
                       "No room info found for " \o Str(course) \o ".", << >>)
       ELSE Reply("clarify", None, "Which course's room info would you like?", << >>)

DailyLine(r) ==
    "- " \o Str(r["Course"]) \o " at " \o FormatTime(r["Time"]) \o " in room "
        \o Str(r["Room"]) \o " (Teacher: " \o Str(r["Teacher"]) \o ")"

\* DailySchedule falling back on the wrong context field
DailyScheduleWrongFallback(rows, entities, ctx) ==
    LET day == Or(DictGet(entities, "day", None), ctx.last_course)
        found == SelectSeq(LectureRows(rows), LAMBDA r : r["Day"] = day)
        shown == SelectSeq(found, LAMBDA r : NotNa(r["Time"]))
    IN IF Truthy(day)
       THEN IF found # << >>
            THEN Reply("listing", day, "Schedule for " \o Str(day) \o ":",
                       [i \in 1..Len(shown) |-> DailyLine(shown[i])])
            ELSE Reply("not_found", day,
                       "No classes found for " \o Str(day) \o ".", << >>)
       ELSE Reply("clarify", None, "Which day's schedule would you like?", << >>)

DailySchedule(rows, entities, ctx) ==
    LET day == Or(DictGet(entities, "day", None), ctx.last_day)
        found == SelectSeq(LectureRows(rows), LAMBDA r : r["Day"] = day)
        shown == SelectSeq(found, LAMBDA r : NotNa(r["Time"]))
    IN IF Truthy(day)
       THEN IF found # << >>
            THEN Reply("listing", day, "Schedule for " \o Str(day) \o ":",
                       [i \in 1..Len(shown) |-> DailyLine(shown[i])])
            ELSE Reply("not_found", day,
                       "No classes found for " \o Str(day) \o ".", << >>)
       ELSE Reply("clarify", None, "Which day's schedule would you like?", << >>)

\* The inner loop of schedule_conflict: the conflicts of one day, over the
\* distinct times of its rows in order of appearance
RECURSIVE DayConflicts(_, _, _)
DayConflicts(day, day_df, times) ==
    IF times = << >> THEN << >>
    ELSE LET time == Head(times)
             time_df == SelectSeq(day_df, LAMBDA r : r["Time"] = time)
         IN (IF NotNa(time) /\ Len(time_df) > 1
             THEN <<[day |-> day, time |-> time,
                     courses |-> Column(time_df, "Course")]>>
             ELSE << >>)
                \o DayConflicts(day, day_df, Tail(times))

\* The outer loop: over the distinct days of the Lecture rows
RECURSIVE ConflictsOf(_, _)
ConflictsOf(lectures, days) ==
    IF days = << >> THEN << >>
    ELSE LET day_df == SelectSeq(lectures, LAMBDA r : r["Day"] = Head(days))
         IN DayConflicts(Head(days), day_df, Unique(Column(day_df, "Time")))
                \o ConflictsOf(lectures, Tail(days))

\* conflicts, as the schedule_conflict branch collects them
Conflicts(rows) ==
    ConflictsOf(LectureRows(rows), Unique(Column(LectureRows(rows), "Day")))

ConflictLine(c) ==
    "- " \o Str(c.day) \o " at " \o FormatTime(c.time) \o ": "
        \o JoinComma(c.courses)

ScheduleConflict(rows) ==
    LET conflicts == Conflicts(rows)
    IN IF conflicts # << >>
       THEN IF \A i \in 1..Len(conflicts) : AllStr(conflicts[i].courses)
            THEN Reply("conflicts", None, "Schedule conflicts:",
                       [i \in 1..Len(conflicts) |-> ConflictLine(conflicts[i])])
            ELSE Exception("TypeError")
       ELSE Reply("no_conflicts", None, "No schedule conflicts found.", << >>)

TeacherScheduleLine(r) ==
    "- " \o Str(r["Course"]) \o " on " \o Str(r["Day"]) \o " at "
        \o FormatTime(r["Time"]) \o " in room " \o Str(r["Room"])

TeacherSchedule(rows, entities, ctx) ==
    LET teacher == Or(DictGet(entities, "teacher", None), ctx.last_teacher)
        found == TeacherLectures(rows, teacher)
        shown == SelectSeq(found, LAMBDA r : NotNa(r["Time"]) /\ Truthy(r["Day"]))
    IN IF Truthy(teacher)
       THEN IF found # << >>
            THEN Reply("listing", teacher,
                       Str(teacher) \o "'s teaching schedule:",
                       [i \in 1..Len(shown) |-> TeacherScheduleLine(shown[i])])
            ELSE Reply("not_found", teacher,
                       "No schedule found for " \o Str(teacher) \o ".", << >>)
       ELSE Reply("clarify", None,
                  "Which teacher's schedule would you like to know about?", << >>)

CourseAvailability(courses, entities, ctx) ==
    LET course == Or(DictGet(entities, "course", None), ctx.last_course)
    IN IF Truthy(course)
       THEN IF course \in Values(courses)
            THEN Reply("answer", course,
                       Str(course) \o " is available this semester.", << >>)
            ELSE Reply("not_found", course,
                       Str(course) \o " is not available this semester.", << >>)
       ELSE Reply("clarify", None, "Which course are you checking?", << >>)

SectionInfo(courses, entities, ctx) ==
    LET course == Or(DictGet(entities, "course", None), ctx.last_course)
        all == [i \in 1..Len(courses) |-> courses[i][2]]
        sections == SelectSeq(all, LAMBDA c : Contains(c, course))
    IN IF Truthy(course)
       THEN IF sections # << >>
            THEN Reply("answer", course,
                       "Available sections: " \o JoinComma(sections), << >>)
            ELSE Reply("not_found", course,
                       "No sections found for " \o Str(course) \o ".", << >>)
       ELSE Reply("clarify", None, "Which course's sections would you like?", << >>)

\* The candidate lists random.choice draws from
Canned(intent) ==
    CASE intent = "greeting" ->
            <<"Merhaba! How can I assist you today?",
              "Hi! Ready to help with your schedule.">>
      [] intent = "goodbye" -> <<"Gorusuruz!", "Bye! Take care!">>
      [] intent = "thanks" -> <<"Rica ederim!", "You're welcome!">>
      [] intent = "smalltalk_weather" ->
            <<"Hava durumu? Check your window or a weather app!",
              "Weather? I'm just predict sunny vibes!">>
      [] OTHER -> << >>

CourseIntents ==
    {"class_schedule", "exam_info", "room_info", "course_availability",
     "section_info"}
TeacherIntents == {"teacher_info", "teacher_schedule"}
DayIntents == {"daily_schedule"}
EntityIntents == CourseIntents \cup TeacherIntents \cup DayIntents

\* The if/elif chain of generate_response, after the turn was recorded.
\* pick is the candidate random.choice draws.
Dispatch(intent, rows, courses, entities, ctx, pick) ==
    CASE Canned(intent) # << >> ->
            Reply("canned", None, Canned(intent)[pick], << >>)
      [] intent = "class_schedule" -> ClassSchedule(rows, entities, ctx)
      [] intent = "exam_info" -> ExamInfo(rows, entities, ctx)
      [] intent = "teacher_info" -> TeacherInfo(rows, entities, ctx)
      [] intent = "room_info" -> RoomInfo(rows, entities, ctx)
      [] intent = "daily_schedule" -> DailySchedule(rows, entities, ctx)
      [] intent = "schedule_conflict" -> ScheduleConflict(rows)
      [] intent = "teacher_schedule" -> TeacherSchedule(rows, entities, ctx)
      [] intent = "course_availability" -> CourseAvailability(courses, entities, ctx)
      [] intent = "section_info" -> SectionInfo(courses, entities, ctx)
      [] intent = "academic_calendar" ->
            Reply("canned", None,
                  "Academic calendar: Please check the university website for exact dates.",
                  << >>)
      [] intent = "smalltalk_name" ->
            Reply("canned", None,
                  "I'm Unibot, your friendly university schedule assistant!", << >>)
      [] OTHER ->
            Reply("fallback", None, "Sorry, I didn't understand. Could you clarify?",
                  << >>)

\* generate_response evaluating the branch on the context as it was, and
\* recording the turn afterwards
GenerateResponseDispatchFirst(ctx, rows, courses, text, entities, p, now, pick) ==
    IF p.raises
    THEN [ctx |-> ctx, recorded |-> FALSE, response |-> Exception("predict_intent")]
    ELSE [ctx |-> UpdateContext(ctx, text, p.label, entities, now),
          recorded |-> TRUE,
          response |-> Dispatch(p.label, rows, courses, entities, ctx, pick)]

\* generate_response: [ctx, response].  p is what predict_intent does for the
\* text: it raises, or it returns the label p.label.
GenerateResponse(ctx, rows, courses, text, entities, p, now, pick) ==
    IF p.raises
    THEN [ctx |-> ctx, recorded |-> FALSE, response |-> Exception("predict_intent")]
    ELSE LET updated == UpdateContext(ctx, text, p.label, entities, now)
         IN [ctx |-> updated, recorded |-> TRUE,
             response |-> Dispatch(p.label, rows, courses, entities, updated, pick)]

----------------------------------------------------------------------------
(* The session: main(), and a caller of generate_response with its own dict *)

\* The NLP backend parses the text and labels its dates and persons; the
\* fuzzy scorer finds nothing close
QuietOracle ==
    [raises |-> FALSE, stat |-> TRUE, fzCourse |-> <<1, 0>>,
     fzTeacher |-> <<1, 0>>, fzNoTitle |-> <<1, 0>>, fzSpan |-> <<1, 0>>]

\* nlp(text) raises
FailingOracle == [QuietOracle EXCEPT !.raises = TRUE]

\* The error text main() shows for an exception
ErrorReply(cause) ==
    [raised |-> FALSE, kind |-> "error", entity |-> None,
     head |-> "Hata: " \o cause, lines |-> << >>]

\* main() without the except clause: the exception is the result
SurfaceNothing(r) == r

\* What the except clause of main() makes of a result
Surface(r) == IF r.raised THEN ErrorReply(r.head) ELSE r

\* A dict the history shares with a caller stays that caller's object; once
\* the caller builds a new dict for the next call, the old object is out of
\* its reach.  With entities.copy() no Interaction holds id "arg".
Detach(ctx) ==
    [ctx EXCEPT !.history =
        [i \in 1..Len(ctx.history) |->
            IF ctx.history[i].entities.id = "arg"
            THEN [ctx.history[i] EXCEPT !.entities.id = "dropped"]
            ELSE ctx.history[i]]]

\* The history variable recorded: what a call that reached _update_context
\* was given, and when
Logged(log, wasRecorded, text, intent, entities, now) ==
    IF wasRecorded
    THEN Append(log, [query |-> text, intent |-> intent, entities |-> entities,
                      timestamp |-> now])
    ELSE log

\* One run of main() with a prompt: extract_entities, generate_response, the
\* except clause, the message appended
MainTurn(text, o, p, pick) ==
    \E x \in {ExtractEntities(context, normalized_courses, normalized_teachers,
                              normalized_teachers_no_titles, text, o)} :
    \E g \in {IF x.raised
              THEN [ctx |-> context, recorded |-> FALSE,
                    response |-> Exception(x.cause)]
              ELSE GenerateResponse(Detach(context), df, normalized_courses,
                                    text, x.entities, p, clock, pick)} :
       /\ clock' = clock + 1
       /\ context' = g.ctx
       /\ messages' = Append(messages, [user |-> text, bot |-> Surface(g.response)])
       /\ callerEntities' = IF x.raised THEN callerEntities ELSE x.entities
       /\ recorded' = Logged(recorded, g.recorded, text, p.label, x.entities, clock)
       /\ call' = [kind |-> "main", text |-> text, oracle |-> o,
                   entities |-> IF x.raised THEN << >> ELSE x.entities,
                   extracted |-> ~x.raised,
                   classified |-> ~x.raised /\ ~p.raises,
                   intent |-> IF g.recorded THEN p.label ELSE "",
                   wasRecorded |-> g.recorded, before |-> context,
                   response |-> Surface(g.response)]
       /\ UNCHANGED <<df, normalized_courses, normalized_teachers,
                      normalized_teachers_no_titles>>

\* generate_response called by a caller that built the dict itself and
\* keeps it; an exception reaches that caller
ApiCall(text, entities, p, pick) ==
    \E g \in {GenerateResponse(Detach(context), df, normalized_courses, text,
                                entities, p, clock, pick)} :
       /\ clock' = clock + 1
       /\ context' = g.ctx
       /\ callerEntities' = entities
       /\ recorded' = Logged(recorded, g.recorded, text, p.label, entities, clock)
       /\ call' = [kind |-> "api", text |-> text, oracle |-> QuietOracle,
                   entities |-> entities,
                   extracted |-> TRUE, classified |-> ~p.raises,
                   intent |-> IF g.recorded THEN p.label ELSE "",
                   wasRecorded |-> g.recorded, before |-> context,
                   response |-> g.response]
       /\ UNCHANGED <<df, normalized_courses, normalized_teachers,
                      normalized_teachers_no_titles, messages>>

\* The caller writes entities[k] = v into the dict it passed to the last
\* call; an Interaction that holds that very object changes with it
CallerMutates(k, v) ==
    /\ call.kind = "api"
    /\ DictGet(callerEntities, k, None) # v
    /\ callerEntities' = DictSet(callerEntities, k, v)
    /\ context' =
        [context EXCEPT !.history =
            [i \in 1..Len(context.history) |->
                IF context.history[i].entities.id = "arg"
                THEN [context.history[i] EXCEPT
                        !.entities.items = DictSet(callerEntities, k, v)]
                ELSE context.history[i]]]
    /\ UNCHANGED <<df, normalized_courses, normalized_teachers,
                   normalized_teachers_no_titles, messages, clock, call,
                   recorded>>

----------------------------------------------------------------------------
(* The schedule of the session, and the state after construction *)

NaT == << >>

Row(course, teacher, day, time, room, examType, examDate, examTime) ==
    [col \in {"Course", "Teacher", "Day", "Time", "Room", "Exam Type",
               "Exam Date", "Exam Time"} |->
        CASE col = "Course" -> course
          [] col = "Teacher" -> teacher
          [] col = "Day" -> day
          [] col = "Time" -> time
          [] col = "Room" -> room
          [] col = "Exam Type" -> examType
          [] col = "Exam Date" -> examDate
          [] col = "Exam Time" -> examTime]

\* A schedule as load_schedule_data returns it: blank cells are '', unparsed
\* times and dates are absent, a numeric course code stays a number
ScheduleData ==
    << Row(<<"CS101">>, <<"Dr.", "Ada">>, <<"Cuma">>, <<9, 0>>, <<"201">>,
           Lecture, NaT, NaT),
       Row(<<"MATH1">>, <<"Bob">>, <<"Cuma">>, <<9, 0>>, <<"202">>,
           Lecture, NaT, NaT),
       Row(<<"<int>", "101">>, <<"Bob">>, <<"Sali">>, <<10, 30>>, <<"203">>,
           Lecture, NaT, NaT),
       Row(<<"CS101">>, <<"Dr.", "Ada">>, << >>, NaT, << >>,
           <<"Midterm">>, <<12, 11, 2025>>, <<10, 0>>) >>

NoCall ==
    [kind |-> "none", text |-> << >>, oracle |-> QuietOracle,
     entities |-> << >>, extracted |-> FALSE, classified |-> FALSE,
     intent |-> "", wasRecorded |-> FALSE, before |-> InitialContext,
     response |-> ErrorReply("")]

\* The state __init__ leaves for the schedule rows: the vocabularies built,
\* the context empty
Constructed(rows) ==
    /\ df = rows
    /\ normalized_courses = PreprocessCourses(rows)
    /\ normalized_teachers = PreprocessTeachers(rows)
    /\ normalized_teachers_no_titles = PreprocessTeachersNoTitles(rows)
    /\ context = InitialContext
    /\ messages = << >>
    /\ callerEntities = << >>
    /\ clock = 0
    /\ call = NoCall
    /\ recorded = << >>

Init == Constructed(ScheduleData)

----------------------------------------------------------------------------
(* What the collaborators may answer, and the turns of a session *)

AllIntents ==
    EntityIntents \cup
        {"schedule_conflict", "greeting", "goodbye", "thanks",
         "academic_calendar", "smalltalk_weather", "smalltalk_name",
         "unknown_label"}

\* predict_intent returns one of the labels, or raises
Predictions(labels) ==
    {[raises |-> FALSE, label |-> i] : i \in labels}
        \cup {[raises |-> TRUE, label |-> ""]}

\* The candidates random.choice may draw for an intent
Picks(intent) == IF Canned(intent) # << >> THEN 1..Len(Canned(intent)) ELSE {1}

MaxTurns == 2

ConvTexts == {<<"is">>, <<"CS101">>, <<"Bob">>, <<"Cuma">>}

\* Dicts a caller of generate_response builds by hand: keys may be missing
ApiEntities ==
    {<< >>, [course |-> <<"CS101">>],
     [teacher |-> <<"Dr.", "Ada">>, day |-> <<"Cuma">>]}

ConvIntents == EntityIntents

\* A prompt typed into the chat
Turn ==
    /\ clock < MaxTurns
    /\ \E text \in ConvTexts, p \in Predictions(ConvIntents) :
         MainTurn(text, QuietOracle, p, 1)

\* A direct call of generate_response
Call ==
    /\ clock < MaxTurns
    /\ \E entities \in ApiEntities, p \in Predictions(ConvIntents) :
         ApiCall(<<"is">>, entities, p, 1)

Next == Turn \/ Call

Spec == Init /\ [][Next]_vars

----------------------------------------------------------------------------
(* A long session: enough turns to fill the history and evict from it, with *)
(* turns that fail before and after they are recorded                       *)

MaxHistoryTurns == 6

HistoryTexts == {<<"Bob">>, <<"CS101">>}

\* A prompt typed into the chat of a long session.  teacher_info raises
\* TypeError once the teacher is Bob, whose courses include a number.
LongSessionTurn ==
    /\ clock < MaxHistoryTurns
    /\ \E text \in HistoryTexts, o \in {QuietOracle, FailingOracle},
          p \in Predictions({"teacher_info"}) :
         MainTurn(text, o, p, 1)

NextHistory == LongSessionTurn

SpecHistory == Init /\ [][NextHistory]_vars

----------------------------------------------------------------------------
(* A session of a caller that keeps, and later changes, the dict it passed  *)

MaxSnapshotTurns == 2

\* The dicts of the caller: one with only the course key, one with every key
\* and no course
SnapshotEntities ==
    {[course |-> <<"CS101">>], [EmptyEntities EXCEPT !["day"] = <<"Cuma">>]}

SnapshotCall ==
    /\ clock < MaxSnapshotTurns
    /\ \E entities \in SnapshotEntities, p \in Predictions(AllIntents) :
         \E pick \in Picks(p.label) : ApiCall(<<"is">>, entities, p, pick)

SnapshotMutation == CallerMutates("course", <<"MATH1">>)

NextSnapshot == SnapshotCall \/ SnapshotMutation

SpecSnapshot == Init /\ [][NextSnapshot]_vars

----------------------------------------------------------------------------
(* Sessions that exercise extraction: every text of up to MaxWords words,   *)
(* with the fuzzy scorer finding nothing, or a course, or taking a COURSE   *)
(* span for a teacher                                                       *)

MaxWords == 2

ExtractWords == {"is", "CS101", "Bob", "class", "about", "Cuma"}

Texts(words, n) == UNION {[1..k -> words] : k \in 1..n}

ExtractOracles ==
    {QuietOracle,
     [QuietOracle EXCEPT !.fzCourse = <<2, 70>>],
     [QuietOracle EXCEPT !.fzSpan = <<1, 85>>]}

MaxExtractTurns == 2

ExtractTurn ==
    /\ clock < MaxExtractTurns
    /\ \E text \in Texts(ExtractWords, MaxWords), o \in ExtractOracles,
          p \in Predictions({"class_schedule"}) :
         MainTurn(text, o, p, 1)

NextExtract == ExtractTurn

SpecExtract == Init /\ [][NextExtract]_vars

----------------------------------------------------------------------------
(* Sessions over any small schedule of lecture and exam rows *)

MaxRows == 3

ConflictRows ==
    {Row(c, <<"Bob">>, d, t, <<"201">>, x, NaT, NaT) :
        c \in {<<"CS101">>, <<"MATH1">>}, d \in {<<"Cuma">>, <<"Sali">>},
        t \in {<<9, 0>>, NaT}, x \in {Lecture, <<"Midterm">>}}

Schedules(rowSet, n) == UNION {[1..k -> rowSet] : k \in 0..n}

InitConflict == \E rows \in Schedules(ConflictRows, MaxRows) : Constructed(rows)

ConflictTurn ==
    /\ clock < 1
    /\ \E text \in {<<"is">>, <<"CS101">>}, p \in Predictions({"schedule_conflict"}) :
         MainTurn(text, QuietOracle, p, 1)

NextConflict == ConflictTurn

SpecConflict == InitConflict /\ [][NextConflict]_vars

----------------------------------------------------------------------------
(* Sessions that ask for the exams of a course, over any small schedule of  *)
(* its Midterm and Final rows, dated or not                                 *)

ExamRows ==
    {Row(<<"CS101">>, <<"Bob">>, << >>, NaT, << >>, x, d, <<10, 0>>) :
        x \in {<<"Midterm">>, <<"Final">>}, d \in {<<12, 11, 2025>>, NaT}}

ExamTexts ==
    {<<"CS101">>, <<"CS101", "exam">>, <<"CS101", "test">>,
     <<"CS101", "midterm">>, <<"CS101", "final">>}

InitExam == \E rows \in Schedules(ExamRows, MaxRows) : Constructed(rows)

ExamTurn ==
    /\ clock < 1
    /\ \E text \in ExamTexts, p \in Predictions({"exam_info"}) :
         MainTurn(text, QuietOracle, p, 1)

NextExam == ExamTurn

SpecExam == InitExam /\ [][NextExam]_vars

----------------------------------------------------------------------------
(* Sessions that ask for a listing, over any small schedule of lecture and  *)
(* exam rows, with or without a time                                        *)

ListingIntents ==
    {"class_schedule", "exam_info", "room_info", "daily_schedule",
     "teacher_schedule"}

ListingTurn ==
    /\ clock < 1
    /\ \E text \in {<<"CS101">>, <<"Bob">>, <<"Cuma">>},
          p \in Predictions(ListingIntents) :
         MainTurn(text, QuietOracle, p, 1)

NextListing == ListingTurn

SpecListing == InitConflict /\ [][NextListing]_vars

----------------------------------------------------------------------------
(* Sessions over a schedule with one teacher, of any name made of up to     *)
(* MaxNameWords titles and name words                                       *)

MaxNameWords == 4

NameWords == {"Doc.", "Dr.", "Ogr.", "Gor.", "Prof.", "Ada"}

\* Titles followed by the name
TeacherNames == {t \in Texts(NameWords, MaxNameWords) : t # << >> /\ t[Len(t)] = "Ada"}

InitTitles ==
    \E name \in TeacherNames :
        Constructed(<<Row(<<"CS101">>, name, <<"Cuma">>, <<9, 0>>, <<"201">>,
                          Lecture, NaT, NaT)>>)

TitlesTurn ==
    /\ clock < 1
    /\ \E p \in Predictions({"teacher_info"}) :
         MainTurn(<<"Ada">>, [QuietOracle EXCEPT !.fzNoTitle = <<1, 90>>], p, 1)

NextTitles == TitlesTurn

SpecTitles == InitTitles /\ [][NextTitles]_vars

----------------------------------------------------------------------------
(* Vocabulary of the claims *)

\* The entity an entity-dependent intent is answered for
OperativeField(intent) ==
    CASE intent \in CourseIntents -> "course"
      [] intent \in TeacherIntents -> "teacher"
      [] intent \in DayIntents -> "day"

LastField(ctx, f) ==
    CASE f = "course" -> ctx.last_course
      [] f = "teacher" -> ctx.last_teacher
      [] f = "day" -> ctx.last_day

\* The entities leave field f unset: the key is missing, or holds no value
Unset(entities, f) == ~Truthy(DictGet(entities, f, None))

\* The value of field f in the most recent of the logged turns 1..n that set it
RECURSIVE MostRecentValue(_, _, _)
MostRecentValue(log, n, f) ==
    IF n = 0 THEN None
    ELSE IF ~Unset(log[n].entities, f) THEN log[n].entities[f]
    ELSE MostRecentValue(log, n - 1, f)

\* The latest call was recorded, for an entity-dependent intent, with the
\* operative entity unset in its entities
UnsetOperativeTurn ==
    /\ call.wasRecorded
    /\ call.intent \in EntityIntents
    /\ Unset(call.entities, OperativeField(call.intent))

----------------------------------------------------------------------------
(* C1: a recorded turn whose entities leave course (teacher, day) unset     *)
(* leaves last_course (last_teacher, last_day) as it was before the turn,   *)
(* and a last_* field that was set is still set after the turn.             *)
C1_StickyLastFields ==
    call.wasRecorded =>
        \A f \in {"course", "teacher", "day"} :
            /\ Unset(call.entities, f) =>
                   LastField(context, f) = LastField(call.before, f)
            /\ Truthy(LastField(call.before, f)) => Truthy(LastField(context, f))

(* C3: a turn for an entity-dependent intent whose entities leave the       *)
(* operative field unset, after an earlier turn of the session set it, is   *)
(* answered for the earlier value and not with the clarification prompt     *)
(* (turns that end in an exception are left out of the statement).          *)
C3_FollowUpUsesEarlierValue ==
    LET f == OperativeField(call.intent)
        earlier == MostRecentValue(recorded, Len(recorded) - 1, f)
    IN (/\ UnsetOperativeTurn
        /\ earlier # None
        /\ call.response.kind \notin {"error", "exception"})
           => /\ call.response.kind # "clarify"
              /\ call.response.entity = earlier

\* The clarification literals of the external interface
ClarificationLiteral(intent) ==
    CASE intent = "class_schedule" ->
            "Which course's schedule would you like to know?"
      [] intent = "exam_info" -> "Which course's exam info would you like?"
      [] intent = "room_info" -> "Which course's room info would you like?"
      [] intent = "course_availability" -> "Which course are you checking?"
      [] intent = "section_info" -> "Which course's sections would you like?"
      [] intent = "teacher_info" -> "Which teacher would you like info about?"
      [] intent = "teacher_schedule" ->
            "Which teacher's schedule would you like to know about?"
      [] intent = "daily_schedule" -> "Which day's schedule would you like?"

(* C8: when the operative entity of an entity-dependent intent is unset in  *)
(* the turn's entities and the context held no value for it before the      *)
(* turn, the response is exactly the intent's clarification literal, with   *)
(* no record line.                                                          *)
C8_ClarificationWhenNothingKnown ==
    (UnsetOperativeTurn
        /\ ~Truthy(LastField(call.before, OperativeField(call.intent))))
       => /\ call.response.head = ClarificationLiteral(call.intent)
          /\ call.response.lines = << >>
          /\ call.response.kind = "clarify"

\* C8 happens on a later turn of a session whose context holds another entity
C8_Witness ==
    /\ UnsetOperativeTurn
    /\ ~Truthy(LastField(call.before, OperativeField(call.intent)))
    /\ call.kind = "main"
    /\ clock = 2
    /\ Truthy(call.before.last_course)
    /\ call.intent = "daily_schedule"

----------------------------------------------------------------------------
\* The Interactions of a history, as the log keeps them
HistoryView(history) ==
    [i \in 1..Len(history) |->
        [query |-> history[i].query, intent |-> history[i].intent,
         entities |-> history[i].entities.items,
         timestamp |-> history[i].timestamp]]

(* C2: the history holds at most 5 Interactions, and they are the most      *)
(* recent min(n, 5) of the n recorded turns, in arrival order.              *)
C2_HistoryIsLastFive ==
    LET n == Len(recorded)
        m == IF n < 5 THEN n ELSE 5
    IN /\ Len(context.history) = m
       /\ \A i \in 1..m : HistoryView(context.history)[i] = recorded[n - m + i]

\* A sixth turn was recorded and the oldest Interaction evicted
C2_Witness ==
    /\ Len(recorded) = 6
    /\ Len(context.history) = 5
    /\ context.history[1].timestamp = recorded[2].timestamp

(* C9: an exception of a turn is caught and shown as the turn's response;   *)
(* the session accepts the next prompt; a turn that failed before it was    *)
(* recorded leaves the context as it was; the history always holds at most  *)
(* 5 Interactions, each one complete and as it was recorded.                *)
C9_ExceptionsAreContained ==
    /\ call.kind = "main" =>
          /\ messages # << >>
          /\ messages[Len(messages)] = [user |-> call.text, bot |-> call.response]
          /\ ~call.response.raised
    /\ (call.kind = "main" /\ ~call.wasRecorded) =>
          /\ call.response.kind = "error"
          /\ context = call.before
    /\ clock < MaxHistoryTurns => ENABLED LongSessionTurn
    /\ Len(context.history) <= 5
    /\ \A i \in 1..Len(context.history) :
          /\ DOMAIN context.history[i] = {"query", "intent", "entities", "timestamp"}
          /\ DOMAIN context.history[i].entities.items = EntityKeys
          /\ \E j \in 1..Len(recorded) :
                HistoryView(context.history)[i] = recorded[j]

\* A turn fails before it is recorded, with the history full and an earlier
\* turn of the session having failed after it was recorded
C9_Witness ==
    /\ call.kind = "main"
    /\ ~call.wasRecorded
    /\ call.response.head = "Hata: predict_intent"
    /\ Len(call.before.history) = 5
    /\ \E i \in 1..Len(messages) : messages[i].bot.head = "Hata: TypeError"

(* C10: every generate_response call whose intent was classified records    *)
(* exactly one Interaction (query, intent, entities as passed, timestamp)   *)
(* at the end of the history; the branch is evaluated on the context as     *)
(* updated by that turn; and the stored entities stay as they were passed   *)
(* whatever the caller does to its dict afterwards.                         *)
C10_RecordedBeforeDispatch ==
    /\ call.classified = call.wasRecorded
    /\ call.wasRecorded =>
          LET before == call.before.history
              now == context.history
              n == Len(now)
              kept == IF Len(before) < 5 THEN Len(before) ELSE 4
              f == OperativeField(call.intent)
              own == DictGet(call.entities, f, None)
              resolved == IF Truthy(own) THEN own ELSE LastField(context, f)
          IN /\ n = kept + 1
             /\ \A i \in 1..kept :
                   HistoryView(now)[i] = HistoryView(before)[Len(before) - kept + i]
             /\ HistoryView(now)[n] =
                   [query |-> call.text, intent |-> call.intent,
                    entities |-> call.entities, timestamp |-> clock - 1]
             /\ Len(recorded) > 0 /\ recorded[Len(recorded)] = HistoryView(now)[n]
             /\ call.intent \in EntityIntents =>
                   /\ call.response.kind = "clarify" <=> ~Truthy(resolved)
                   /\ call.response.kind \notin {"clarify", "exception"} =>
                         call.response.entity = resolved

\* The caller changed its dict after a recorded call whose entities held the
\* course key with no value while the context remembered an earlier course
C10_Witness ==
    /\ call.wasRecorded
    /\ callerEntities # call.entities
    /\ call.intent \in CourseIntents
    /\ "course" \in DOMAIN call.entities
    /\ Unset(call.entities, "course")
    /\ Truthy(call.before.last_course)
    /\ call.response.kind = "clarify"

----------------------------------------------------------------------------
\* No token of the text is a keyword of the phrase matcher
NoKeywordHit(text) ==
    \A i \in 1..Len(text) : KeywordLabel(DetectLanguage(text), text[i]) = "none"

(* C4: when follow-up resolution runs, each of teacher and course that the  *)
(* exact, fuzzy and NER stages left unset is filled from the most recent    *)
(* Interaction of the history that set that field (stated for texts with no *)
(* keyword, where no later stage writes course or teacher).                 *)
C4_BackfillPerField ==
    (call.kind = "main" /\ call.extracted) =>
        LET text == call.text
            e3 == AfterNer(normalized_courses, normalized_teachers,
                           normalized_teachers_no_titles, text, call.oracle)
            log == HistoryView(call.before.history)
        IN (/\ FollowupRuns(e3, IsFollowup(NormalizeText(text), DetectLanguage(text)))
            /\ NoKeywordHit(text))
               => \A f \in {"teacher", "course"} :
                     ~Truthy(e3[f]) =>
                         call.entities[f] = MostRecentValue(log, Len(log), f)

\* The NER pass takes no COURSE span of the text for a teacher
NoReclassification(text, o) ==
    LET ents == Ents(text, 1, RulerPatterns(normalized_courses, normalized_teachers),
                     o.stat)
    IN \A i \in 1..Len(ents) :
          ents[i].label = "COURSE" =>
              ~Truthy(FuzzyMatchEntity(ents[i].text, normalized_teachers_no_titles,
                                       o.fzSpan))

(* C6: when the normalized text contains the normalized name of a course of *)
(* the vocabulary and no COURSE span is reclassified as a teacher, the      *)
(* returned course is a canonical course name whose normalized form is in   *)
(* the text, and a class_schedule response is about that course.            *)
C6_ExactCourseReturned ==
    LET normalized == NormalizeText(call.text)
    IN (/\ call.kind = "main"
        /\ call.extracted
        /\ \E i \in 1..Len(normalized_courses) :
              Contains(normalized, normalized_courses[i][1])
        /\ NoReclassification(call.text, call.oracle))
           => /\ call.entities["course"] \in Values(normalized_courses)
              /\ Contains(normalized, NormalizeText(call.entities["course"]))
              /\ (call.wasRecorded /\ call.intent = "class_schedule") =>
                    call.response.entity = call.entities["course"]

----------------------------------------------------------------------------
\* The (day, time) groups of the Lecture rows that have a time
LectureGroups ==
    {<<df[i]["Day"], df[i]["Time"]>> :
        i \in {j \in 1..Len(df) : df[j]["Exam Type"] = Lecture
                                     /\ df[j]["Time"] # << >>}}

CoursesOfGroup(g) ==
    {df[i]["Course"] :
        i \in {j \in 1..Len(df) : /\ df[j]["Exam Type"] = Lecture
                                    /\ df[j]["Day"] = g[1]
                                    /\ df[j]["Time"] = g[2]}}

ConflictingGroups == {g \in LectureGroups : Cardinality(CoursesOfGroup(g)) > 1}

(* C5: for intent schedule_conflict the groups reported are exactly the     *)
(* (day, time) groups of Lecture rows with more than one distinct course,   *)
(* each with all its courses; with no such group the response is exactly    *)
(* "No schedule conflicts found.".                                          *)
C5_ConflictIffDistinctCourses ==
    (call.wasRecorded /\ call.intent = "schedule_conflict") =>
        LET reported == Conflicts(df)
        IN /\ {<<reported[i].day, reported[i].time>> : i \in 1..Len(reported)}
                 = ConflictingGroups
           /\ \A i \in 1..Len(reported) :
                 {reported[i].courses[k] : k \in 1..Len(reported[i].courses)}
                    = CoursesOfGroup(<<reported[i].day, reported[i].time>>)
           /\ ConflictingGroups = {} =>
                 /\ call.response.head = "No schedule conflicts found."
                 /\ call.response.lines = << >>
           /\ ConflictingGroups # {} =>
                 /\ call.response.head = "Schedule conflicts:"
                 /\ Len(call.response.lines) = Cardinality(ConflictingGroups)

----------------------------------------------------------------------------
\* The name with the first prefix of the priority list it starts with removed
RECURSIVE WithoutFirstPrefix(_, _)
WithoutFirstPrefix(name, prefixes) ==
    IF prefixes = << >> THEN name
    ELSE IF StartsWith(name, Head(prefixes))
    THEN SubSeq(name, Len(Head(prefixes)) + 1, Len(name))
    ELSE WithoutFirstPrefix(name, Tail(prefixes))

(* C7: the key of each teacher in the title-stripped vocabulary is the name *)
(* with at most one title prefix removed, the first of the priority list    *)
(* the name starts with; a title that follows it stays in the key.          *)
C7_AtMostOnePrefixStripped ==
    \A i \in 1..Len(normalized_teachers_no_titles) :
        normalized_teachers_no_titles[i][1] =
            NormalizeText(WithoutFirstPrefix(normalized_teachers_no_titles[i][2],
                                             title_prefixes))

----------------------------------------------------------------------------
\* The exam types the text names
NamedExamTypes(text) ==
    {t \in ExamTypes : \E i \in 1..Len(text) : <<LowerWord(text[i])>> = Lower(t)}

(* C11: for intent exam_info with a resolved course that has exam rows with *)
(* a date, a text that names no exam type yields all the exam rows of the   *)
(* course; a text that names Midterm, Final or Makeup yields exactly the    *)
(* rows of that type.                                                       *)
C11_GenericExamWordListsAll ==
    (call.kind = "main" /\ call.wasRecorded /\ call.intent = "exam_info") =>
        LET own == DictGet(call.entities, "course", None)
            course == IF Truthy(own) THEN own ELSE LastField(context, "course")
            exams == SelectSeq(df, LAMBDA r : r["Course"] = course
                                             /\ r["Exam Type"] \in ExamTypes)
            named == NamedExamTypes(call.text)
            expected == IF named = {} THEN exams
                        ELSE SelectSeq(exams, LAMBDA r : r["Exam Type"] \in named)
            dated == SelectSeq(expected, LAMBDA r : r["Exam Date"] # NaT)
        IN (Truthy(course) /\ \E i \in 1..Len(exams) : exams[i]["Exam Date"] # NaT)
              => /\ call.response.lines = [i \in 1..Len(dated) |-> ExamLine(dated[i])]
                 /\ named = {} => call.response.kind = "listing"

(* C12: for intents class_schedule, exam_info, room_info, daily_schedule    *)
(* and teacher_schedule every response is the clarification prompt, the     *)
(* not-found message naming the entity, or a header followed by at least    *)
(* one record line; a header alone is never returned.                       *)
C12_NoHeaderWithoutLines ==
    (call.wasRecorded /\ call.intent \in ListingIntents) =>
        \/ /\ call.response.kind = "clarify"
           /\ call.response.head = ClarificationLiteral(call.intent)
           /\ call.response.lines = << >>
        \/ /\ call.response.kind = "not_found"
           /\ Truthy(call.response.entity)
           /\ call.response.lines = << >>
        \/ /\ call.response.kind = "listing"
           /\ Len(call.response.lines) >= 1

====
